---- MODULE Spec2Model ----
(***************************************************************************)
(* Model of src/tgraph.py: the rate-limited Telegraph account              *)
(* (class Telegraph), the account pool (class API), the module-level       *)
(* start-up (api, TelegraphIfy.max_concurrency, TelegraphIfy._semaphore)   *)
(* and the guarded publish operation (TelegraphIfy.telegraph_ify).         *)
(*                                                                         *)
(* Threads are the tasks; pc[t] is the position of thread t in the code.   *)
(* A step of a thread runs from one point where it can block or where      *)
(* another thread can see its effect to the next: the steps are the permit *)
(* acquire, the choice of the account, the check of the retry counter, the *)
(* read-lock acquire, the mutex acquire, the start and the return of the   *)
(* createPage request, the writes of self.retries, the test of the lock    *)
(* owner, the write-lock acquire, the return of create_account and the end *)
(* of the backoff sleep.  "self.retries += 1" is one step.  Locks released *)
(* on the way out of a with-block are released in the step that leaves it. *)
(*                                                                         *)
(* fasteners.ReaderWriterLock is modelled by its fields _writer,           *)
(* _pending_writers and _readers: a reader waits while another thread is   *)
(* the writer; a writer queues and waits until there is no reader and no   *)
(* writer and it is first in the queue; owner is WRITER iff _writer is set.*)
(*                                                                         *)
(* Time is discrete: Tick lets one second pass.  A sleeping thread holds   *)
(* the seconds it still has to sleep, and an account holds the seconds     *)
(* elapsed since its last_run (time.time() - self.last_run), counted up to *)
(* Interval because the code only compares it with the interval.           *)
(*                                                                         *)
(* The credential of an account is a value the remote chooses; the model   *)
(* records in wlog that create_account has replaced it.                    *)
(***************************************************************************)
EXTENDS Integers, Sequences, FiniteSets, TLC

\* ---- bounds of the model ------------------------------------------------
NumTasks == 2
MaxTokens == 2
MaxAttempts == 4

\* ---- constants of the program -------------------------------------------
RetryCap == 3
Interval == 1
RotateThreshold == 60
TokenLen == 60
DefaultConcurrency == 10

Tasks == 1..NumTasks
Accounts == 1..MaxTokens
NoTask == 0

\* Wait values the remote may put in FLOOD_WAIT_<n>.
FloodWaits == {1, RotateThreshold}
\* Lengths of the configured tokens.
TokenLens == {TokenLen - 1, TokenLen}

\* A reply of the remote createPage call.
Replies == [kind : {"ok", "error"}, wait : {0}] \cup [kind : {"flood"}, wait : FloodWaits]
\* A reply of the remote createAccount / getAccountInfo call: success, a
\* telegraph.TelegraphException, or any other exception (e.g. of requests).
SetupReplies == {"ok", "api_error", "error"}

VARIABLES
    \* API.__init__ and the module-level start-up
    stage,       \* "init": API.__init__ running; "run": module loaded
    configured,  \* env.TELEGRAPH_TOKEN is set (line 117)
    tokens,      \* lengths of the tokens the loop of API.__init__ has still to do
    built,       \* number of tokens (Telegraph objects) the loop has done
    accounts,    \* API._accounts: the account ids in the pool, in order
    setup,       \* per token: how its set-up went (history of API.__init__,
                 \* kept until the module is loaded)
    api,         \* the module-level api: "pool" or "none"
    capacity,    \* TelegraphIfy.max_concurrency
    permits,     \* free permits of TelegraphIfy._semaphore
    \* Telegraph objects, one per token
    retries,     \* self.retries
    elapsed,     \* min(time.time() - self.last_run, Interval)
    writer,      \* self._lock._writer (NoTask if none)
    pending,     \* self._lock._pending_writers
    readers,     \* self._lock._readers
    rlock,       \* owner of self._rlock (NoTask if free)
    \* threads
    pc,          \* position in the code
    acct,        \* the account random.choice picked
    gated,       \* the thread entered through telegraph_ify (holds a permit)
    retry_after, \* local retry_after of the handler
    sleep,       \* seconds the thread still has to sleep
    result,      \* how the invocation ended: "none", "ok", "Overflow", ...
    page,        \* the page returned (the number of the attempt that made it)
    \* history of the current invocation
    attempts,    \* network attempts of this invocation so far
    rejects,     \* those of them the remote rejected with flood control
    longwait,    \* one of the rejections carried a wait >= 60
    solo,        \* started with retries = 0 and alone on its account so far
    okgap,       \* per account: seconds since its last successful createPage
                 \* returned (up to Interval; Interval while there was none)
    wlog         \* what the thread did in its last write phase

poolVars == <<stage, configured, tokens, built, accounts, setup, api, capacity>>
lockVars == <<writer, pending, readers, rlock>>
histVars == <<attempts, rejects, longwait, okgap>>
vars == <<stage, configured, tokens, built, accounts, setup, api, capacity, permits,
          retries, elapsed, writer, pending, readers, rlock,
          pc, acct, gated, retry_after, sleep, result, page,
          attempts, rejects, longwait, solo, okgap, wlog>>

Max(a, b) == IF a >= b THEN a ELSE b
Min(a, b) == IF a <= b THEN a ELSE b

NoLog == [kind |-> "none", prov |-> 0, slept |-> 0, replaced |-> FALSE]

\* Positions at which a thread is inside Telegraph.create_page of its account.
InAccount == {"check", "read", "rlock", "throttle", "net", "reset",
              "incr", "owner", "wwait", "rotate", "backoff"}

\* ---- API.__init__ -----------------------------------------------------------

\* What the loop of API.__init__ did with one token: its length, whether a
\* createAccount was attempted for it, the reply to its getAccountInfo ("none"
\* when line 88 was not reached) and the last setup step with its outcome.
NoSetup == [len |-> 0, tried |-> FALSE, probe |-> "none", last |-> "none"]

\* A handler that appends the account whatever createAccount answered.
SetupHandlerKeep(second) ==
    [kept |-> TRUE, tried |-> TRUE,
     last |-> IF second = "ok" THEN "prov_ok" ELSE "prov_fail"]

\* The except-handler of lines 90-97: provision a replacement account.
SetupHandler(second) ==
    IF second = "ok"
    THEN [kept |-> TRUE, tried |-> TRUE, last |-> "prov_ok"]
    ELSE [kept |-> FALSE, tried |-> TRUE, last |-> "prov_fail"]

\* A probe whose non-API failure is ignored: the account is appended.
SetupProbeKeep(probe, second, tried) ==
    CASE probe = "ok" ->
            [kept |-> TRUE, tried |-> tried, last |-> "probe_ok"]
      [] probe = "api_error" -> SetupHandler(second)
      [] OTHER ->
            [kept |-> TRUE, tried |-> tried, last |-> "probe_fail"]

\* A probe whose API failure drops the token without the handler of line 90.
SetupProbeDrop(probe, second, tried) ==
    CASE probe = "ok" ->
            [kept |-> TRUE, tried |-> tried, last |-> "probe_ok"]
      [] OTHER ->
            [kept |-> FALSE, tried |-> tried, last |-> "probe_fail"]

\* Line 88 and what follows it: the account-info probe.
SetupProbe(probe, second, tried) ==
    CASE probe = "ok" ->
            [kept |-> TRUE, tried |-> tried, last |-> "probe_ok"]
      [] probe = "api_error" -> SetupHandler(second)
      [] OTHER ->
            [kept |-> FALSE, tried |-> tried, last |-> "probe_fail"]

\* One iteration of the loop of API.__init__ for a token of length len, given
\* the replies of the remote to the first createAccount (made only when the
\* length is not 60), to getAccountInfo and to the createAccount of the handler.
SetupToken(len, first, probe, second) ==
    IF len # TokenLen
    THEN CASE first = "ok" -> SetupProbe(probe, second, TRUE)
           [] first = "api_error" -> SetupHandler(second)
           [] OTHER -> [kept |-> FALSE, tried |-> TRUE, last |-> "prov_fail"]
    ELSE SetupProbe(probe, second, FALSE)

\* Line 88 is reached when the length is 60 or the createAccount of line 85
\* returned.
Probed(len, first) == len = TokenLen \/ first = "ok"

Init ==
    /\ stage = "init"
    /\ tokens \in UNION {[1..n -> TokenLens] : n \in 0..MaxTokens}
    /\ configured = (Len(tokens) > 0)
    /\ built = 0
    /\ accounts = <<>>
    /\ setup = [i \in Accounts |-> NoSetup]
    /\ api = "none"
    /\ capacity = 0
    /\ permits = 0
    /\ retries = [a \in Accounts |-> 0]
    /\ elapsed = [a \in Accounts |-> 0]
    /\ writer = [a \in Accounts |-> NoTask]
    /\ pending = [a \in Accounts |-> <<>>]
    /\ readers = [a \in Accounts |-> {}]
    /\ rlock = [a \in Accounts |-> NoTask]
    /\ pc = [t \in Tasks |-> "idle"]
    /\ acct = [t \in Tasks |-> 1]
    /\ gated = [t \in Tasks |-> FALSE]
    /\ retry_after = [t \in Tasks |-> 0]
    /\ sleep = [t \in Tasks |-> 0]
    /\ result = [t \in Tasks |-> "none"]
    /\ page = [t \in Tasks |-> 0]
    /\ attempts = [t \in Tasks |-> 0]
    /\ rejects = [t \in Tasks |-> 0]
    /\ longwait = [t \in Tasks |-> FALSE]
    /\ solo = [t \in Tasks |-> FALSE]
    /\ okgap = [a \in Accounts |-> Interval]
    /\ wlog = [t \in Tasks |-> NoLog]

\* API.__init__, lines 80-99: one token is set up and kept or dropped.
ApiInitToken ==
    /\ stage = "init"
    /\ tokens # <<>>
    /\ \E first \in SetupReplies, probe \in SetupReplies, second \in {"ok", "error"} :
         LET i == built + 1
             r == SetupToken(Head(tokens), first, probe, second)
         IN /\ built' = i
            /\ tokens' = Tail(tokens)
            /\ accounts' = IF r.kept THEN Append(accounts, i) ELSE accounts
            /\ setup' = [setup EXCEPT ![i] =
                           [len |-> Head(tokens), tried |-> r.tried,
                            probe |-> IF Probed(Head(tokens), first)
                                      THEN probe ELSE "none",
                            last |-> r.last]]
            /\ elapsed' = [elapsed EXCEPT ![i] = 0]
    /\ UNCHANGED <<stage, configured, api, capacity, permits, retries, lockVars,
                   pc, acct, gated, retry_after, sleep, result, page,
                   histVars, solo, wlog>>

\* API.valid and API.count
Valid == Len(accounts) > 0
Count == Len(accounts)

\* Lines 116-121 and 132-135: the module-level api and the semaphore.
ModuleInit ==
    /\ stage = "init"
    /\ tokens = <<>>
    /\ stage' = "run"
    /\ api' = IF configured /\ Valid THEN "pool" ELSE "none"
    /\ capacity' = IF api' = "pool" THEN Count ELSE DefaultConcurrency
    /\ permits' = capacity'
    /\ setup' = [i \in Accounts |-> NoSetup]
    /\ UNCHANGED <<configured, tokens, built, accounts, retries, elapsed, lockVars,
                   pc, acct, gated, retry_after, sleep, result, page,
                   histVars, solo, wlog>>

\* ---- TelegraphIfy and API.create_page ------------------------------------------

\* A create_page that tries again after a remote error that is no flood wait.
LeaveRetry(t, r) ==
    /\ result' = [result EXCEPT ![t] = r]
    /\ pc' = [pc EXCEPT ![t] = IF r = "RemoteError" THEN "check" ELSE "exit"]

\* An exception (or the return) leaves API.create_page with outcome r.
Leave(t, r) ==
    /\ result' = [result EXCEPT ![t] = r]
    /\ pc' = [pc EXCEPT ![t] = "exit"]

\* TelegraphIfy.__init__, lines 139-140; then telegraph_ify is called.
TelegraphIfyInit(t) ==
    /\ stage = "run"
    /\ pc[t] = "idle"
    /\ IF api = "none"
       THEN Leave(t, "NotConfigured")
       ELSE pc' = [pc EXCEPT ![t] = "sem"] /\ UNCHANGED result
    /\ UNCHANGED <<poolVars, permits, retries, elapsed, lockVars,
                   acct, gated, retry_after, sleep, page, histVars, solo, wlog>>

\* A semaphore that admits every thread.
PermitAlways == TRUE

\* Line 165: BoundedSemaphore.acquire goes on when a permit is free.
PermitFree == permits > 0

\* Line 165: "with self._semaphore" takes a permit, blocking while none is free.
SemAcquire(t) ==
    /\ pc[t] = "sem"
    /\ PermitFree
    /\ permits' = permits - 1
    /\ gated' = [gated EXCEPT ![t] = TRUE]
    /\ pc' = [pc EXCEPT ![t] = "pool"]
    /\ UNCHANGED <<poolVars, retries, elapsed, lockVars,
                   acct, retry_after, sleep, result, page, histVars, solo, wlog>>

\* create_page is called on the API object that line 118 built and lines
\* 119-121 found invalid (telegraph_ify cannot reach it: api is None then).
DirectCall(t) ==
    /\ stage = "run"
    /\ pc[t] = "idle"
    /\ configured
    /\ ~Valid
    /\ pc' = [pc EXCEPT ![t] = "pool"]
    /\ UNCHANGED <<poolVars, permits, retries, elapsed, lockVars,
                   acct, gated, retry_after, sleep, result, page, histVars, solo, wlog>>

\* The other threads that are in, or have just left, a call on account a.
Others(t, a) == {u \in Tasks \ {t} : acct[u] = a /\ pc[u] \in InAccount \cup {"exit"}}

\* API.create_page, lines 109-113.
ApiCreatePage(t) ==
    /\ pc[t] = "pool"
    /\ IF Len(accounts) = 0
       THEN /\ Leave(t, "NotConfigured")
            /\ UNCHANGED <<acct, solo>>
       ELSE \E i \in 1..Len(accounts) :
              LET a == accounts[i] IN
              /\ acct' = [acct EXCEPT ![t] = a]
              /\ pc' = [pc EXCEPT ![t] = "check"]
              /\ solo' = [u \in Tasks |->
                            IF u = t THEN retries[a] = 0 /\ Others(t, a) = {}
                            ELSE IF u \in Others(t, a) THEN FALSE ELSE solo[u]]
              /\ UNCHANGED result
    /\ UNCHANGED <<poolVars, permits, retries, elapsed, lockVars,
                   gated, retry_after, sleep, page, histVars, wlog>>

\* A permit that is given back on a normal return only.
ReleasedOnReturn(t) == IF gated[t] /\ result[t] = "ok" THEN permits + 1 ELSE permits

\* Line 165: the free permits once thread t has left the with-block, by
\* return or by exception.
Released(t) == IF gated[t] THEN permits + 1 ELSE permits

\* Lines 165-170: the with-block is left and the permit is released; a
\* constructor that raised (line 140) held none.
TelegraphIfyExit(t) ==
    /\ pc[t] = "exit"
    /\ permits' = Released(t)
    /\ gated' = [gated EXCEPT ![t] = FALSE]
    /\ pc' = [pc EXCEPT ![t] = "idle"]
    /\ result' = [result EXCEPT ![t] = "none"]
    /\ page' = [page EXCEPT ![t] = 0]
    /\ acct' = [acct EXCEPT ![t] = 1]
    /\ attempts' = [attempts EXCEPT ![t] = 0]
    /\ rejects' = [rejects EXCEPT ![t] = 0]
    /\ longwait' = [longwait EXCEPT ![t] = FALSE]
    /\ solo' = [solo EXCEPT ![t] = FALSE]
    /\ wlog' = [wlog EXCEPT ![t] = NoLog]
    /\ retry_after' = [retry_after EXCEPT ![t] = 0]
    /\ UNCHANGED <<poolVars, retries, elapsed, lockVars, sleep, okgap>>

\* ---- Telegraph.create_page and Telegraph._create_page ----------------------------

\* A cap that is reached one attempt early.
ExhaustedEarly(r) == r >= RetryCap - 1

\* Line 36: the attempt cap is reached.
Exhausted(r) == r >= RetryCap

\* A throttle that never sleeps.
ThrottleNoSleep(e) == 0

\* Line 69: max(1 - (time.time() - self.last_run), 0), e the elapsed time.
ThrottleSleep(e) == Max(Interval - e, 0)

\* Line 55: rotate the credential instead of waiting.
ShouldRotate(w) == w >= RotateThreshold

\* Line 61: time.sleep(retry_after + 1).
BackoffSleep(w) == w + 1

\* What the remote may answer to the createPage of thread t that is under way.
\* The model stops the remote from flooding one invocation for ever.
RemoteReplies(t) ==
    {r \in Replies : r.kind = "flood" => attempts[t] < MaxAttempts}

\* Lines 36-41: the check at the head of create_page (also of each recursive call).
CheckRetries(t) ==
    /\ pc[t] = "check"
    /\ LET a == acct[t] IN
       IF Exhausted(retries[a])
       THEN /\ retries' = [retries EXCEPT ![a] = 0]
            /\ Leave(t, "Overflow")
       ELSE /\ pc' = [pc EXCEPT ![t] = "read"]
            /\ UNCHANGED <<retries, result>>
    /\ wlog' = [wlog EXCEPT ![t] = NoLog]
    /\ retry_after' = [retry_after EXCEPT ![t] = 0]
    /\ UNCHANGED <<poolVars, permits, elapsed, lockVars,
                   acct, gated, sleep, page, histVars, solo>>

\* A read lock that does not wait for the writer.
CanReadNoWait(t, a) == TRUE

\* Line 66: ReaderWriterLock.read_lock admits a reader when no other thread
\* is the writer.
CanRead(t, a) == writer[a] = NoTask \/ writer[a] = t

\* Line 54: ReaderWriterLock.write_lock admits the first pending writer when
\* there is no reader and no writer.
CanWrite(t, a) ==
    readers[a] = {} /\ writer[a] = NoTask /\ pending[a] # <<>> /\ Head(pending[a]) = t

\* A call mutex that never makes a thread wait.
RLockFreeNoWait(a) == TRUE

\* Line 68: the call mutex is free.
RLockFree(a) == rlock[a] = NoTask

\* Line 66: fasteners.read_locked takes the read lock; it waits while another
\* thread is the writer.
ReadLock(t) ==
    /\ pc[t] = "read"
    /\ LET a == acct[t] IN
       /\ CanRead(t, a)
       /\ readers' = [readers EXCEPT ![a] = @ \cup {t}]
    /\ pc' = [pc EXCEPT ![t] = "rlock"]
    /\ UNCHANGED <<poolVars, permits, retries, elapsed, writer, pending, rlock,
                   acct, gated, retry_after, sleep, result, page, histVars, solo, wlog>>

\* Lines 68-69: the call mutex is taken and the length of the throttle sleep
\* is computed.
RLockAcquire(t) ==
    /\ pc[t] = "rlock"
    /\ LET a == acct[t] IN
       /\ RLockFree(a)
       /\ rlock' = [rlock EXCEPT ![a] = t]
       /\ sleep' = [sleep EXCEPT ![t] = ThrottleSleep(elapsed[a])]
    /\ pc' = [pc EXCEPT ![t] = "throttle"]
    /\ UNCHANGED <<poolVars, permits, retries, elapsed, writer, pending, readers,
                   acct, gated, retry_after, result, page, histVars, solo, wlog>>

\* Line 70: the sleep is over and the createPage request goes out.
CallStart(t) ==
    /\ pc[t] = "throttle"
    /\ sleep[t] = 0
    /\ pc' = [pc EXCEPT ![t] = "net"]
    /\ attempts' = [attempts EXCEPT ![t] = @ + 1]
    /\ UNCHANGED <<poolVars, permits, retries, elapsed, lockVars,
                   acct, gated, retry_after, sleep, result, page,
                   rejects, longwait, okgap, solo, wlog>>

\* Lines 70-72 and 43-50, 63-64: the request returns or raises; the call mutex
\* and the read lock are released on the way out of _create_page.
CallReturn(t) ==
    /\ pc[t] = "net"
    /\ LET a == acct[t] IN
       \E r \in RemoteReplies(t) :
          /\ rlock' = [rlock EXCEPT ![a] = NoTask]
          /\ readers' = [readers EXCEPT ![a] = @ \ {t}]
          /\ CASE r.kind = "ok" ->
                    /\ elapsed' = [elapsed EXCEPT ![a] = 0]
                    /\ okgap' = [okgap EXCEPT ![a] = 0]
                    /\ page' = [page EXCEPT ![t] = attempts[t]]
                    /\ pc' = [pc EXCEPT ![t] = "reset"]
                    /\ UNCHANGED <<retry_after, result, rejects, longwait>>
               [] r.kind = "flood" ->
                    /\ retry_after' = [retry_after EXCEPT ![t] = r.wait]
                    /\ rejects' = [rejects EXCEPT ![t] = @ + 1]
                    /\ longwait' = [longwait EXCEPT ![t] = @ \/ ShouldRotate(r.wait)]
                    /\ pc' = [pc EXCEPT ![t] = "incr"]
                    /\ UNCHANGED <<elapsed, okgap, page, result>>
               [] OTHER ->
                    /\ Leave(t, "RemoteError")
                    /\ UNCHANGED <<elapsed, okgap, page, retry_after, rejects, longwait>>
    /\ UNCHANGED <<poolVars, permits, retries, writer, pending,
                   acct, gated, sleep, attempts, solo, wlog>>

\* Lines 45-46: self.retries = 0; return page.
ResetRetries(t) ==
    /\ pc[t] = "reset"
    /\ retries' = [retries EXCEPT ![acct[t]] = 0]
    /\ Leave(t, "ok")
    /\ UNCHANGED <<poolVars, permits, elapsed, lockVars,
                   acct, gated, retry_after, sleep, page, histVars, solo, wlog>>

\* Line 52: self.retries += 1 (taken as one step of the thread).
IncrRetries(t) ==
    /\ pc[t] = "incr"
    /\ retries' = [retries EXCEPT ![acct[t]] = @ + 1]
    /\ pc' = [pc EXCEPT ![t] = "owner"]
    /\ UNCHANGED <<poolVars, permits, elapsed, lockVars,
                   acct, gated, retry_after, sleep, result, page, histVars, solo, wlog>>

\* Lines 53-54: if no thread is the writer, queue for the write lock;
\* otherwise go straight to the retry of line 62.
CheckOwner(t) ==
    /\ pc[t] = "owner"
    /\ LET a == acct[t] IN
       IF writer[a] # NoTask
       THEN /\ pc' = [pc EXCEPT ![t] = "check"]
            /\ UNCHANGED pending
       ELSE /\ pending' = [pending EXCEPT ![a] = Append(@, t)]
            /\ pc' = [pc EXCEPT ![t] = "wwait"]
    /\ UNCHANGED <<poolVars, permits, retries, elapsed, writer, readers, rlock,
                   acct, gated, retry_after, sleep, result, page, histVars, solo, wlog>>

\* Lines 54-61: write_lock() is granted (no reader, no writer, first in the
\* queue); the thread starts the provisioning call or the backoff sleep.
WriteAcquire(t) ==
    /\ pc[t] = "wwait"
    /\ LET a == acct[t] IN
       /\ CanWrite(t, a)
       /\ writer' = [writer EXCEPT ![a] = t]
       /\ pending' = [pending EXCEPT ![a] = Tail(@)]
    /\ IF ShouldRotate(retry_after[t])
       THEN /\ pc' = [pc EXCEPT ![t] = "rotate"]
            /\ wlog' = [wlog EXCEPT ![t] = [kind |-> "rotate", prov |-> 1, slept |-> 0,
                                             replaced |-> FALSE]]
            /\ UNCHANGED sleep
       ELSE /\ pc' = [pc EXCEPT ![t] = "backoff"]
            /\ sleep' = [sleep EXCEPT ![t] = BackoffSleep(retry_after[t])]
            /\ wlog' = [wlog EXCEPT ![t] = [kind |-> "sleep", prov |-> 0,
                                             slept |-> BackoffSleep(retry_after[t]),
                                             replaced |-> FALSE]]
    /\ UNCHANGED <<poolVars, permits, retries, elapsed, readers, rlock,
                   acct, gated, retry_after, result, page, histVars, solo>>

\* A rotation whose failed create_account leaves the write lock taken.
RotateReturnKeepLock(t) ==
    /\ pc[t] = "rotate"
    /\ \E ok \in BOOLEAN :
         IF ok
         THEN /\ writer' = [writer EXCEPT ![acct[t]] = NoTask]
              /\ wlog' = [wlog EXCEPT ![t].replaced = TRUE]
              /\ pc' = [pc EXCEPT ![t] = "check"]
              /\ UNCHANGED result
         ELSE /\ Leave(t, "ProvisioningError")
              /\ UNCHANGED <<wlog, writer>>
    /\ UNCHANGED <<poolVars, permits, retries, elapsed, pending, readers, rlock,
                   acct, gated, retry_after, sleep, page, histVars, solo>>

\* Lines 57-59 and 62: create_account returns and the credential is replaced,
\* or it raises; either way the with-block releases the write lock.
RotateReturn(t) ==
    /\ pc[t] = "rotate"
    /\ writer' = [writer EXCEPT ![acct[t]] = NoTask]
    /\ \E ok \in BOOLEAN :
         IF ok
         THEN /\ wlog' = [wlog EXCEPT ![t].replaced = TRUE]
              /\ pc' = [pc EXCEPT ![t] = "check"]
              /\ UNCHANGED result
         ELSE /\ Leave(t, "ProvisioningError")
              /\ UNCHANGED wlog
    /\ UNCHANGED <<poolVars, permits, retries, elapsed, pending, readers, rlock,
                   acct, gated, retry_after, sleep, page, histVars, solo>>

\* Lines 61-62: the backoff sleep is over; the write lock is released.
BackoffWake(t) ==
    /\ pc[t] = "backoff"
    /\ sleep[t] = 0
    /\ writer' = [writer EXCEPT ![acct[t]] = NoTask]
    /\ pc' = [pc EXCEPT ![t] = "check"]
    /\ UNCHANGED <<poolVars, permits, retries, elapsed, pending, readers, rlock,
                   acct, gated, retry_after, sleep, result, page, histVars, solo, wlog>>

\* One second passes.
Tick ==
    /\ elapsed' = [a \in Accounts |-> IF a <= built THEN Min(elapsed[a] + 1, Interval)
                                                    ELSE elapsed[a]]
    /\ sleep' = [t \in Tasks |-> Max(sleep[t] - 1, 0)]
    /\ okgap' = [a \in Accounts |-> Min(okgap[a] + 1, Interval)]
    /\ UNCHANGED <<poolVars, permits, retries, lockVars,
                   pc, acct, gated, retry_after, result, page,
                   attempts, rejects, longwait, solo, wlog>>

Next ==
    \/ ApiInitToken
    \/ ModuleInit
    \/ Tick
    \/ \E t \in Tasks :
         \/ TelegraphIfyInit(t)
         \/ SemAcquire(t)
         \/ DirectCall(t)
         \/ ApiCreatePage(t)
         \/ TelegraphIfyExit(t)
         \/ CheckRetries(t)
         \/ ReadLock(t)
         \/ RLockAcquire(t)
         \/ CallStart(t)
         \/ CallReturn(t)
         \/ ResetRetries(t)
         \/ IncrRetries(t)
         \/ CheckOwner(t)
         \/ WriteAcquire(t)
         \/ RotateReturn(t)
         \/ BackoffWake(t)

Spec == Init /\ [][Next]_vars

\* ---- the claims -------------------------------------------------------------------

\* The threads whose createPage request on account a is in flight.
InFlight(a) == {t \in Tasks : pc[t] = "net" /\ acct[t] = a}

\* C1: in every reachable state each account has at most one createPage
\* network call in flight.
C1_OneCallInFlight == \A a \in Accounts : Cardinality(InFlight(a)) <= 1

\* C1, its case: a call is in flight on an account and a second caller of the
\* same account waits for the call mutex.
C1_Witness ==
    \E t \in Tasks, u \in Tasks :
        t # u /\ acct[t] = acct[u] /\ pc[t] = "net" /\ pc[u] = "rlock"

\* C2: while a thread holds the write phase of an account's gate no createPage
\* network call is in flight on that account, and a thread that is about to
\* take the read lock, the call mutex or to send its request is held up by the
\* gate and the mutex of its own account only.
C2_WritePhaseExcludes ==
    /\ \A a \in Accounts : writer[a] # NoTask => InFlight(a) = {}
    /\ \A t \in Tasks :
         /\ pc[t] = "read" /\ writer[acct[t]] = NoTask => ENABLED ReadLock(t)
         /\ pc[t] = "rlock" /\ rlock[acct[t]] = NoTask => ENABLED RLockAcquire(t)
         /\ pc[t] = "throttle" /\ sleep[t] = 0 => ENABLED CallStart(t)

\* C2, its case: a thread holds the write phase of an account, a second caller
\* of that account waits for the read lock.
C2_Witness ==
    \E t \in Tasks, u \in Tasks :
        t # u /\ writer[acct[t]] = t /\ acct[u] = acct[t] /\ pc[u] = "read"

\* C3: a single caller on an account that starts with the retry counter at 0
\* and is rejected with flood control three times in a row fails with
\* Overflow after exactly three network attempts, and the counter is 0 then
\* (so that a further call starts again as attempt 1).
C3_OverflowAfterThree ==
    \A t \in Tasks :
        pc[t] = "exit" /\ solo[t] /\ rejects[t] >= RetryCap =>
            /\ result[t] = "Overflow"
            /\ attempts[t] = RetryCap
            /\ retries[acct[t]] = 0

\* C4: a single caller on an account that starts with the retry counter at 0
\* and is rejected with waits below 60 on attempts 1 and 2 makes a third
\* attempt; if that one succeeds its page is returned without an error and the
\* retry counter is 0 afterwards.
C4_ThirdAttemptSucceeds ==
    \A t \in Tasks :
        pc[t] = "exit" /\ solo[t] /\ rejects[t] = 2 /\ ~longwait[t] =>
            /\ attempts[t] = 3
            /\ result[t] \in {"ok", "RemoteError"}
            /\ page[t] = 3 => result[t] = "ok" /\ retries[acct[t]] = 0

\* C4, its case: the single caller has been rejected twice with short waits
\* and returns the page of its third attempt.
C4_Witness ==
    \E t \in Tasks :
        /\ pc[t] = "exit" /\ solo[t] /\ rejects[t] = 2 /\ ~longwait[t]
        /\ page[t] = 3 /\ result[t] = "ok"

\* C5: in every interleaving one createPage invocation makes at most three
\* network attempts.
C5_AtMostThreeAttempts == \A t \in Tasks : attempts[t] <= RetryCap

\* C6: in every interleaving an invocation fails with Overflow only after
\* three rejected attempts of its own.
C6_OverflowOnlyOwnChain ==
    \A t \in Tasks : result[t] = "Overflow" => rejects[t] >= RetryCap

\* The threads that hold a permit, and the positions inside the with-block of
\* telegraph_ify (the call of api.create_page and its way out).
Holders == {t \in Tasks : gated[t]}
InGuarded == InAccount \cup {"pool", "exit"}

\* C7: once the module is loaded the gate's capacity is the pool's account
\* count (10 if there is no pool), the permits held are between 0 and the
\* capacity, they are held by threads inside the guarded call only, and at
\* most capacity threads are inside it.
C7_GateBounded ==
    stage = "run" =>
        /\ capacity = IF api = "pool" THEN Count ELSE DefaultConcurrency
        /\ capacity - permits = Cardinality(Holders)
        /\ 0 <= capacity - permits /\ capacity - permits <= capacity
        /\ \A t \in Holders : pc[t] \in InGuarded
        /\ Cardinality({t \in Tasks : pc[t] \in InGuarded /\ api = "pool"}) <= capacity

\* C7, its case: every permit is held and a further thread waits at the gate.
C7_Witness ==
    /\ stage = "run" /\ permits = 0 /\ Holders # {}
    /\ \E t \in Tasks : pc[t] = "sem"

\* C8: a thread that is not inside the guarded operation holds no permit,
\* whatever way it left it; so when no publish operation is in progress all
\* permits are free.
C8_PermitReleased ==
    /\ \A t \in Tasks : pc[t] \in {"idle", "sem"} => ~gated[t]
    /\ stage = "run" => permits + Cardinality(Holders) = capacity
    /\ stage = "run" /\ (\A t \in Tasks : pc[t] = "idle") => permits = capacity

\* C8, its case: no operation is in progress, all permits are free, and an
\* earlier operation ended with an exception (the retry counter it left
\* behind is not 0).
C8_Witness ==
    /\ stage = "run" /\ api = "pool" /\ permits = capacity
    /\ \A t \in Tasks : pc[t] = "idle"
    /\ \E a \in Accounts : retries[a] > 0

\* C9: a thread that has been through the write phase for a rejection with
\* wait W goes on to the retry, and: if W >= 60 it made one provisioning call,
\* the credential was replaced and it did not sleep; if W < 60 it slept W + 1
\* seconds, made no provisioning call and left the credential alone.
C9_RotateOrSleep ==
    \A t \in Tasks :
        wlog[t].kind # "none" /\ pc[t] \notin {"rotate", "backoff"} =>
            /\ pc[t] = "check"
            /\ acct[t] \in {accounts[i] : i \in 1..Len(accounts)}
            /\ IF retry_after[t] >= RotateThreshold
               THEN wlog[t].prov = 1 /\ wlog[t].replaced /\ wlog[t].slept = 0
               ELSE wlog[t].slept = retry_after[t] + 1 /\ wlog[t].prov = 0
                    /\ ~wlog[t].replaced

\* C10: a createPage request on an account goes out no sooner than one time
\* unit after the last successful request on that account returned.
C10_Spacing ==
    \A t \in Tasks : pc[t] = "net" => okgap[acct[t]] >= Interval

\* C10, its case: a successful request has just returned and the next caller
\* of that account sleeps before it sends its request.
C10_Witness ==
    \E t \in Tasks :
        pc[t] = "throttle" /\ sleep[t] > 0 /\ okgap[acct[t]] = 0


\* ---- API: the pool and its construction ------------------------------------

\* Token i of the list was appended to _accounts.
InPool(i) == \E k \in 1..Len(accounts) : accounts[k] = i

\* No thread has touched account a: counter at 0, both locks free.
Untouched(a) ==
    /\ retries[a] = 0
    /\ readers[a] = {}
    /\ writer[a] = NoTask
    /\ pending[a] = <<>>
    /\ rlock[a] = NoTask

C11_State ==
    /\ (stage = "init" /\ \A i \in 1..built : setup[i].last \in {"prov_fail", "probe_fail"})
          => ~Valid /\ Count = 0
    /\ (stage = "run" /\ configured /\ ~Valid)
          => /\ api = "none"
             /\ \A a \in Accounts : Untouched(a)
             /\ \A t \in Tasks :
                  /\ pc[t] \in {"idle", "pool", "exit"}
                  /\ attempts[t] = 0
                  /\ sleep[t] = 0
                  /\ pc[t] = "exit" => result[t] = "NotConfigured"

C11_Step ==
    \A t \in Tasks :
       (pc[t] = "pool" /\ ~Valid /\ pc'[t] # "pool")
          => /\ pc'[t] = "exit"
             /\ result'[t] = "NotConfigured"
             /\ UNCHANGED <<retries, elapsed, lockVars, attempts, rejects, sleep, acct>>

\* C11: a pool in which no supplied credential survived construction reports
\* valid = FALSE and count = 0, and a create_page call on it ends at once with
\* NotConfigured: no network attempt, no account touched, no retry.
C11_EmptyPoolNotConfigured == []C11_State /\ [][C11_Step]_vars

\* A call on the empty pool has been answered while another one is under way.
C11_Witness ==
    /\ stage = "run" /\ configured /\ ~Valid
    /\ \E t, u \in Tasks :
          /\ pc[t] = "exit" /\ result[t] = "NotConfigured"
          /\ pc[u] = "pool"

\* C12: once API.__init__ is through the list, the pool holds exactly the
\* tokens whose last setup step succeeded (the probe, or the createAccount of
\* the handler); a token whose last step failed is not in it; every token was
\* processed, whatever the remote answered; count is at most the number given.
C12_PoolHoldsOnlyGoodAccounts ==
    stage = "init" =>
       /\ \A i \in 1..built :
            /\ InPool(i) => setup[i].last \in {"probe_ok", "prov_ok"}
            /\ setup[i].last \in {"prov_fail", "probe_fail"} => ~InPool(i)
            /\ setup[i].last # "none"
       /\ \A k \in 1..Len(accounts) : accounts[k] \in 1..built
       /\ Count <= built
       /\ tokens # <<>> => ENABLED ApiInitToken

\* Construction is over: one token was dropped, one was provisioned afresh.
C12_Witness ==
    /\ stage = "init" /\ tokens = <<>> /\ built = 2 /\ Count = 1
    /\ \E i, j \in 1..built :
          /\ setup[i].last = "prov_fail" /\ ~InPool(i)
          /\ setup[j].last = "prov_ok" /\ InPool(j)

\* Token i needed a replacement: implausible length, or a failed probe.
NeedsProvisioning(i) ==
    setup[i].len # TokenLen \/ setup[i].probe \in {"api_error", "error"}

\* C13 as stated: every token of implausible length or with a failed probe
\* gets a createAccount attempt, and a token is dropped only after a
\* createAccount attempt for it failed.
C13_ProvisionBeforeDrop ==
    stage = "init" =>
       \A i \in 1..built :
          /\ NeedsProvisioning(i) => setup[i].tried
          /\ ~InPool(i) => setup[i].tried /\ setup[i].last = "prov_fail"

\* C13, amended: the createAccount attempt is made for a token of implausible
\* length or whose probe failed with an API error (TelegraphException); a token
\* is dropped only after a createAccount attempt for it failed or after its
\* probe failed with an error that is not an API error.
C13_ProvisionOnApiError ==
    stage = "init" =>
       \A i \in 1..built :
          /\ (setup[i].len # TokenLen \/ setup[i].probe = "api_error") => setup[i].tried
          /\ ~InPool(i) =>
                \/ setup[i].tried /\ setup[i].last = "prov_fail"
                \/ setup[i].probe = "error"

\* A well-formed token whose probe met an API error was given a createAccount
\* attempt, which failed, and the token was dropped.
C13_Witness ==
    /\ stage = "init"
    /\ \E i \in 1..built :
          /\ setup[i].len = TokenLen /\ setup[i].probe = "api_error"
          /\ setup[i].tried /\ setup[i].last = "prov_fail" /\ ~InPool(i)


\* ---- Telegraph.create_page: errors and the retry counter ------------------

\* Thread t is queued for, or holds, one of the locks of account a.
InQueue(t, a) == \E k \in 1..Len(pending[a]) : pending[a][k] = t
HoldsLock(t, a) == rlock[a] = t \/ t \in readers[a] \/ writer[a] = t

\* C14: a remote error that is no flood wait leaves create_page as it came,
\* after that one attempt: the invocation is over, the failed attempt was its
\* last one, and nothing was done about it (no sleep, no createAccount, no
\* write lock taken or queued for, no lock kept).
C14_RemoteErrorPropagates ==
    \A t \in Tasks :
       result[t] = "RemoteError" =>
          /\ pc[t] = "exit"
          /\ attempts[t] = rejects[t] + 1
          /\ wlog[t] = NoLog
          /\ sleep[t] = 0
          /\ ~HoldsLock(t, acct[t])
          /\ ~InQueue(t, acct[t])

\* The remote error came on the attempt that followed a flood wait.
C14_Witness ==
    \E t \in Tasks :
       /\ pc[t] = "exit" /\ result[t] = "RemoteError"
       /\ rejects[t] >= 1 /\ attempts[t] = rejects[t] + 1

\* C15: no call after construction ends with a provisioning failure, and a
\* flood wait reaches the caller only as Overflow.
C15_NoProvisioningFailure ==
    \A t \in Tasks :
       result[t] \in {"none", "ok", "Overflow", "NotConfigured", "RemoteError"}

\* C16: the retry counter of every account stays within 0..3.
C16_RetriesBounded ==
    \A a \in Accounts : retries[a] \in 0..RetryCap


\* ---- Concurrency of the callers of one account -----------------------------

C17_Step ==
    /\ \A t \in Tasks :
          /\ (pc'[t] # pc[t] /\ retries'[acct[t]] # retries[acct[t]])
                => HoldsLock(t, acct[t])
          /\ (pc[t] = "net" /\ pc'[t] = "reset") => HoldsLock(t, acct[t])
    /\ \A a \in Accounts :
          retries'[a] # retries[a] => \E t \in Tasks : acct[t] = a /\ pc'[t] # pc[t]

\* C17: a thread that writes retries or last_run of an account holds one of
\* that account's locks (_rlock, or the read or write side of _lock) as it
\* writes, and a thread writes the state of the account it is calling only.
C17_WritesUnderLock == [][C17_Step]_vars

\* C18: a rejected thread never waits for a write lock that another thread
\* holds: while one thread rotates or sleeps under the write lock, no other
\* thread of the account is queued for it.
C18_NeverWaitsForWriter ==
    \A t \in Tasks :
       pc[t] = "wwait" =>
          /\ writer[acct[t]] = NoTask
          /\ \A u \in Tasks \ {t} :
                acct[u] = acct[t] => pc[u] \notin {"rotate", "backoff"}

\* Thread t waits for a permit or a lock that it cannot get in this state.
Blocked(t) ==
    \/ pc[t] = "sem" /\ ~PermitFree
    \/ pc[t] = "read" /\ ~CanRead(t, acct[t])
    \/ pc[t] = "rlock" /\ ~RLockFree(acct[t])
    \/ pc[t] = "wwait" /\ ~CanWrite(t, acct[t])

Unfinished == {t \in Tasks : pc[t] # "idle"}

\* C19: in no reachable state is every unfinished thread waiting for a permit
\* or a lock; and a thread that is outside Telegraph.create_page (its call
\* ended, by a failed rotation too) holds no lock of any account.
C19_NoDeadlock ==
    /\ Unfinished # {} => \E t \in Unfinished : ~Blocked(t)
    /\ \A t \in Tasks :
          pc[t] \notin InAccount =>
             \A a \in Accounts : ~HoldsLock(t, a) /\ ~InQueue(t, a)

\* A thread waits at the read lock of an account another thread is rotating.
C19_Witness ==
    \E t, u \in Tasks :
       /\ pc[t] = "read" /\ Blocked(t)
       /\ pc[u] = "rotate" /\ acct[u] = acct[t]

\* No thread is inside Telegraph.create_page of account a.
Quiescent(a) == \A t \in Tasks : ~(acct[t] = a /\ pc[t] \in InAccount)

\* C20: whenever no call is under way on an account, its retry counter is 0.
C20_QuiescentRetriesZero ==
    \A a \in Accounts : Quiescent(a) => retries[a] = 0

====
